---- MODULE Spec2Model ----
(***************************************************************************)
(* Tile map example (src/tilemap/src/main.c): main sets the screen up,     *)
(* load_tiles_from_file reads the RGBA2222 image a chunk at a time, has    *)
(* the VDP split every chunk by width into tile buffers and turns them     *)
(* into bitmaps, display_tiles plots the bitmaps in a grid, and main then  *)
(* polls the keyboard until ESC and tidies up.                             *)
(*                                                                         *)
(* The program's state is its variables and its position (pc); the VDP is  *)
(* modelled by the command stream sent to it (cmds) and by the buffers,    *)
(* bitmaps, selected bitmap and plotted screen the commands leave behind.  *)
(***************************************************************************)
EXTENDS Integers, Sequences, FiniteSets, TLC

VARIABLES
    pc,             \* position in the program
    retpc,          \* where the running function returns to
    fileExists,     \* whether fopen finds the file
    fileLen,        \* length of the file in bytes
    filePat,        \* which byte pattern the file holds
    tileMapFile,    \* FILE *tileMapFile: "unset", "open", "null", "closed"
    filePos,        \* read position of tileMapFile
    readChunk,      \* char readChunk[2048]
    loadStartArg,   \* the startBitmapID the caller passed
    startBitmapID,  \* load_tiles_from_file parameter (the running counter)
    lCellWidth,     \* load_tiles_from_file parameter cellWidth
    lCellHeight,    \* load_tiles_from_file parameter cellHeight
    rowCount,       \* load_tiles_from_file parameter
    blockCount,     \* load_tiles_from_file parameter
    chunkLoop,      \* uint8_t loop counter of the outer loop
    rowLoop,        \* uint8_t loop counter of the inner loop
    rows,           \* display_tiles parameter
    columns,        \* display_tiles parameter
    dispStartArg,   \* the startBufferID the caller passed
    startBufferID,  \* display_tiles parameter (the running counter)
    rLoop,          \* uint8_t loop counter of display_tiles
    cLoop,          \* uint8_t loop counter of display_tiles
    lastKey,        \* the last value vdp_getKeyCode returned
    exitStatus,     \* main's return value, -1 while it runs
    cmds,           \* the commands sent to the VDP, in order
    vdpRejects,     \* the kinds of command the VDP rejects in this run
    buffers,        \* VDP: buffer ID -> bytes
    bitmaps,        \* VDP: bitmap ID -> [w, h, format]
    curBitmap,      \* VDP: the selected bitmap ID
    screen          \* VDP: <<x, y>> -> ID of the bitmap plotted there

vars ==
    << pc, retpc, fileExists, fileLen, filePat, tileMapFile, filePos, readChunk,
       startBitmapID, lCellWidth, lCellHeight, rowCount, blockCount, chunkLoop,
       rowLoop, rows, columns, startBufferID, rLoop, cLoop, lastKey, exitStatus,
       cmds, vdpRejects, buffers, bitmaps, curBitmap, screen, loadStartArg,
       dispStartArg >>

argVars == << loadStartArg, dispStartArg >>
fileVars == << fileExists, fileLen, filePat >>
loadArgs == << lCellWidth, lCellHeight, rowCount, blockCount >>
dispVars == << rows, columns, startBufferID, rLoop, cLoop >>
vdpVars == << buffers, bitmaps, curBitmap, screen >>
mainVars == << lastKey, exitStatus >>

----------------------------------------------------------------------------
(* Program constants                                                       *)

screen_mode == 8
RGBA2222_format == 1
chunkSize == 2048
chunkStoreID == 5000
tileStartID == 0
cellWidth == 16
cellHeight == 16
cellRows == 5
cellColumns == 8
BLUE == 4             \* the colour number agon/vdp.h gives BLUE
ESC == 27
PlotOrigin == 10
PlotPitch == 20
DisplayRows == 5
DisplayColumns == 8

(* Widths of the C integer types *)
UInt8 == 256
UInt16 == 65536

----------------------------------------------------------------------------
(* Bounds of the model                                                     *)

MaxRows == 2        \* largest rowCount drawn for load_tiles_from_file
MaxCmds == 530      \* commands after which a run that never returns is cut
MaxDispRows == 3    \* largest rows drawn for display_tiles
MaxDispCols == 3    \* largest columns drawn for display_tiles

----------------------------------------------------------------------------
(* The input file                                                          *)

(* Byte i of the file (0-based), for the two byte patterns the model uses *)
FileByte(pat, i) ==
    IF pat = 1 THEN (i + (i \div 256)) % 256
               ELSE (7 * i + 3 * (i \div 128) + 1) % 256

(* What an fread handed a null FILE* may leave in readChunk *)
JunkChunk == [k \in 1..chunkSize |-> (85 * k) % 256]

Min(a, b) == IF a < b THEN a ELSE b

(* fread(readChunk, 1, chunkSize, f) on an open file: the bytes read *)
FreadCount(len, pos) == Min(chunkSize, len - pos)

FreadInto(buf, pat, len, pos) ==
    LET n == FreadCount(len, pos)
    IN  [k \in 1..chunkSize |-> IF k <= n THEN FileByte(pat, pos + k - 1) ELSE buf[k]]

----------------------------------------------------------------------------
(* The VDP: commands and their effect                                      *)

Cmd(op, a, b, c, d) == [op |-> op, a |-> a, b |-> b, c |-> c, d |-> d]

Accepted(op) == op \notin vdpRejects

(* buffer clear: the buffer and the bitmap made from it go *)
VdpClearBuffer(bufs, id) == [i \in DOMAIN bufs \ {id} |-> bufs[i]]
VdpClearBitmap(bms, id) == [i \in DOMAIN bms \ {id} |-> bms[i]]

(* buffer write: the block is added to the buffer *)
VdpWriteBlock(bufs, id, data) ==
    [i \in DOMAIN bufs \cup {id} |->
        IF i = id
        THEN (IF id \in DOMAIN bufs THEN bufs[id] \o data ELSE data)
        ELSE bufs[i]]

(* split by width: the source is cut into pieces of `width` bytes, piece p  *)
(* goes to block p % count, and block c is stored as buffer target + c      *)
NumPieces(len, width) == (len + width - 1) \div width

BlockPieces(len, width, count, c) ==
    LET P == NumPieces(len, width)
    IN  IF c < P THEN (P - c + count - 1) \div count ELSE 0

BlockLen(len, width, count, c) ==
    LET P == NumPieces(len, width)
        n == BlockPieces(len, width, count, c)
        lastLen == len - (P - 1) * width
    IN  IF n = 0 THEN 0
        ELSE IF (P - 1) % count = c THEN (n - 1) * width + lastLen
        ELSE n * width

SplitBlock(data, width, count, c) ==
    [k \in 1..BlockLen(Len(data), width, count, c) |->
        data[(((k - 1) \div width) * count + c) * width + ((k - 1) % width) + 1]]

SplitTargets(count, target) == {(target + c) % UInt16 : c \in 0..(count - 1)}

VdpSplitByWidth(bufs, src, width, count, target) ==
    IF src \notin DOMAIN bufs \/ width = 0 \/ count = 0 THEN bufs
    ELSE LET data == bufs[src]
             T == SplitTargets(count, target)
         IN  [i \in DOMAIN bufs \cup T |->
                IF i \in T
                THEN SplitBlock(data, width, count, (i - target) % UInt16)
                ELSE bufs[i]]

(* bitmap from buffer: the selected ID's buffer becomes a bitmap, if it is  *)
(* there and holds the w * h bytes of an RGBA2222 bitmap                    *)
VdpBitmapFromBuffer(bms, bufs, id, w, h, fmt) ==
    IF id \in DOMAIN bufs /\ Len(bufs[id]) >= w * h
    THEN [i \in DOMAIN bms \cup {id} |->
            IF i = id THEN [w |-> w, h |-> h, format |-> fmt] ELSE bms[i]]
    ELSE bms

(* plot bitmap: the selected bitmap is drawn with its top left at (x, y) *)
VdpPlot(scr, bms, id, x, y) ==
    IF id \in DOMAIN bms
    THEN [p \in DOMAIN scr \cup {<<x, y>>} |-> IF p = <<x, y>> THEN id ELSE scr[p]]
    ELSE scr

(* a VDP with no buffer, no bitmap, nothing plotted *)
Empty == [i \in {} |-> 0]

Send(c) == cmds' = Append(cmds, c)

(* the run is cut once MaxCmds commands are out *)
CanSend(n) == Len(cmds) + n <= MaxCmds

----------------------------------------------------------------------------
(* load_tiles_from_file                                                    *)

(* FILE *tileMapFile = fopen(fileName, "r") *)
LoadOpen ==
    /\ pc = "l_open"
    /\ tileMapFile' = IF fileExists THEN "open" ELSE "null"
    /\ filePos' = 0
    /\ chunkLoop' = 0
    /\ pc' = "l_for"
    /\ UNCHANGED << argVars, retpc, fileVars, readChunk, startBitmapID, loadArgs, rowLoop,
                    dispVars, mainVars, cmds, vdpRejects, vdpVars >>

(* mutant: the outer for runs once too often *)
ChunkLoopTest_inclusive == chunkLoop <= rowCount

(* mutant: the outer for gives up when fopen failed *)
ChunkLoopTest_openOnly == chunkLoop < rowCount /\ tileMapFile = "open"

(* chunkLoop < rowCount *)
ChunkLoopTest == chunkLoop < rowCount

(* the outer for's test *)
LoadFor ==
    /\ pc = "l_for"
    /\ pc' = IF ChunkLoopTest THEN "l_clear" ELSE "l_close"
    /\ UNCHANGED << argVars, retpc, fileVars, tileMapFile, filePos, readChunk, startBitmapID,
                    loadArgs, chunkLoop, rowLoop, dispVars, mainVars, cmds,
                    vdpRejects, vdpVars >>

(* mutant: the chunk buffer is not cleared before the row is written *)
LoadClear_missing ==
    /\ pc = "l_clear"
    /\ pc' = "l_read"
    /\ UNCHANGED << argVars, retpc, fileVars, tileMapFile, filePos, readChunk,
                    startBitmapID, loadArgs, chunkLoop, rowLoop, dispVars, mainVars,
                    cmds, vdpRejects, vdpVars >>

(* vdp_adv_clear_buffer(chunkStoreID) *)
LoadClear ==
    /\ pc = "l_clear"
    /\ CanSend(1)
    /\ Send(Cmd("clear", chunkStoreID, 0, 0, 0))
    /\ IF Accepted("clear")
       THEN /\ buffers' = VdpClearBuffer(buffers, chunkStoreID)
            /\ bitmaps' = VdpClearBitmap(bitmaps, chunkStoreID)
       ELSE UNCHANGED << buffers, bitmaps >>
    /\ pc' = "l_read"
    /\ UNCHANGED << argVars, retpc, fileVars, tileMapFile, filePos, readChunk, startBitmapID,
                    loadArgs, chunkLoop, rowLoop, dispVars, mainVars, vdpRejects,
                    curBitmap, screen >>

(* fread(readChunk, 1, chunkSize, tileMapFile); the count it returns is     *)
(* dropped. On a null FILE* the call is undefined: the target has no memory *)
(* protection, so it returns, having left readChunk alone or overwritten it.*)
LoadRead ==
    /\ pc = "l_read"
    /\ IF tileMapFile = "open"
       THEN /\ readChunk' = FreadInto(readChunk, filePat, fileLen, filePos)
            /\ filePos' = filePos + FreadCount(fileLen, filePos)
       ELSE /\ \E junk \in BOOLEAN :
                 readChunk' = IF junk THEN JunkChunk ELSE readChunk
            /\ filePos' = filePos
    /\ pc' = "l_write"
    /\ UNCHANGED << argVars, retpc, fileVars, tileMapFile, startBitmapID, loadArgs, chunkLoop,
                    rowLoop, dispVars, mainVars, cmds, vdpRejects, vdpVars >>

(* vdp_adv_write_block_data(chunkStoreID, chunkSize, readChunk) *)
LoadWrite ==
    /\ pc = "l_write"
    /\ CanSend(1)
    /\ Send(Cmd("write", chunkStoreID, chunkSize, 0, 0))
    /\ buffers' = IF Accepted("write")
                  THEN VdpWriteBlock(buffers, chunkStoreID, readChunk)
                  ELSE buffers
    /\ pc' = "l_split"
    /\ UNCHANGED << argVars, retpc, fileVars, tileMapFile, filePos, readChunk, startBitmapID,
                    loadArgs, chunkLoop, rowLoop, dispVars, mainVars, vdpRejects,
                    bitmaps, curBitmap, screen >>

(* vdp_adv_split_by_width_multiple_from(chunkStoreID, cellWidth, blockCount, *)
(* startBitmapID), then the inner for's rowLoop = 0                          *)
LoadSplit ==
    /\ pc = "l_split"
    /\ CanSend(1)
    /\ Send(Cmd("split", chunkStoreID, lCellWidth, blockCount, startBitmapID))
    /\ buffers' = IF Accepted("split")
                  THEN VdpSplitByWidth(buffers, chunkStoreID, lCellWidth,
                                       blockCount, startBitmapID)
                  ELSE buffers
    /\ rowLoop' = 0
    /\ pc' = "l_for2"
    /\ UNCHANGED << argVars, retpc, fileVars, tileMapFile, filePos, readChunk, startBitmapID,
                    loadArgs, chunkLoop, dispVars, mainVars, vdpRejects, bitmaps,
                    curBitmap, screen >>

(* rowLoop < blockCount *)
RowLoopTest == rowLoop < blockCount

(* uint16_t startBitmapID ++ *)
NextBitmapID(id) == (id + 1) % UInt16

(* uint8_t rowLoop ++ *)
NextRowLoop(r) == (r + 1) % UInt8

(* one pass of the inner for: vdp_adv_select_bitmap(startBitmapID),        *)
(* vdp_adv_bitmap_from_buffer(cellWidth, cellHeight, RGBA2222_format),     *)
(* startBitmapID ++, rowLoop ++                                            *)
LoadTile ==
    /\ pc = "l_for2"
    /\ RowLoopTest
    /\ CanSend(2)
    /\ cmds' = cmds \o << Cmd("select", startBitmapID, 0, 0, 0),
                          Cmd("convert", lCellWidth, lCellHeight, RGBA2222_format, 0) >>
    /\ curBitmap' = IF Accepted("select") THEN startBitmapID ELSE curBitmap
    /\ bitmaps' = IF Accepted("convert")
                  THEN VdpBitmapFromBuffer(bitmaps, buffers, curBitmap', lCellWidth,
                                           lCellHeight, RGBA2222_format)
                  ELSE bitmaps
    /\ startBitmapID' = NextBitmapID(startBitmapID)
    /\ rowLoop' = NextRowLoop(rowLoop)
    /\ pc' = "l_for2"
    /\ UNCHANGED << argVars, retpc, fileVars, tileMapFile, filePos, readChunk,
                    loadArgs, chunkLoop, dispVars, mainVars, vdpRejects, buffers,
                    screen >>

(* uint8_t chunkLoop ++ *)
NextChunkLoop(c) == (c + 1) % UInt8

(* the inner for ends, and the outer for's chunkLoop ++ follows *)
LoadRowDone ==
    /\ pc = "l_for2"
    /\ ~RowLoopTest
    /\ chunkLoop' = NextChunkLoop(chunkLoop)
    /\ pc' = "l_for"
    /\ UNCHANGED << argVars, retpc, fileVars, tileMapFile, filePos, readChunk,
                    startBitmapID, loadArgs, rowLoop, dispVars, mainVars, cmds,
                    vdpRejects, vdpVars >>

(* fclose(tileMapFile), and the return to the caller *)
LoadClose ==
    /\ pc = "l_close"
    /\ tileMapFile' = "closed"
    /\ pc' = retpc
    /\ UNCHANGED << argVars, retpc, fileVars, filePos, readChunk, startBitmapID, loadArgs,
                    chunkLoop, rowLoop, dispVars, mainVars, cmds, vdpRejects,
                    vdpVars >>

LoadStep ==
    \/ LoadOpen
    \/ LoadFor
    \/ LoadClear
    \/ LoadRead
    \/ LoadWrite
    \/ LoadSplit
    \/ LoadTile
    \/ LoadRowDone
    \/ LoadClose

----------------------------------------------------------------------------
(* display_tiles                                                           *)

(* rLoop < rows *)
RLoopTest == rLoop < rows

(* the outer for's test, then the inner for's cLoop = 0, or the return *)
DispFor ==
    /\ pc = "d_for"
    /\ IF RLoopTest
       THEN /\ pc' = "d_for2"
            /\ cLoop' = 0
       ELSE /\ pc' = retpc
            /\ cLoop' = cLoop
    /\ UNCHANGED << argVars, retpc, fileVars, tileMapFile, filePos, readChunk, startBitmapID,
                    loadArgs, chunkLoop, rowLoop, rows, columns, startBufferID,
                    rLoop, mainVars, cmds, vdpRejects, vdpVars >>

(* cLoop < columns *)
CLoopTest == cLoop < columns

(* mutant: the rows are drawn a cell apart, not a pitch apart *)
PlotY_byCell(r) == PlotOrigin + r * cellHeight

(* 10 + (cLoop * 20) and 10 + (rLoop * 20) *)
PlotX(c) == PlotOrigin + c * PlotPitch
PlotY(r) == PlotOrigin + r * PlotPitch

(* mutant: the bitmap counter of display_tiles moves on by two *)
NextBufferID_stride(id) == (id + 2) % UInt16

(* uint16_t startBufferID ++ *)
NextBufferID(id) == (id + 1) % UInt16

(* uint8_t cLoop ++ *)
NextCLoop(c) == (c + 1) % UInt8

(* mutant: display_tiles makes the bitmap again before it plots it *)
DispTile_reconvert ==
    /\ pc = "d_for2"
    /\ cLoop < columns
    /\ CanSend(3)
    /\ cmds' = cmds \o << Cmd("select", startBufferID, 0, 0, 0),
                          Cmd("convert", cellWidth, cellHeight, RGBA2222_format, 0),
                          Cmd("plot", PlotOrigin + cLoop * PlotPitch,
                              PlotOrigin + rLoop * PlotPitch, 0, 0) >>
    /\ curBitmap' = startBufferID
    /\ screen' = VdpPlot(screen, bitmaps, startBufferID, PlotOrigin + cLoop * PlotPitch,
                         PlotOrigin + rLoop * PlotPitch)
    /\ startBufferID' = (startBufferID + 1) % UInt16
    /\ cLoop' = (cLoop + 1) % UInt8
    /\ pc' = "d_for2"
    /\ UNCHANGED << argVars, retpc, fileVars, tileMapFile, filePos, readChunk,
                    startBitmapID, loadArgs, chunkLoop, rowLoop, rows, columns, rLoop,
                    mainVars, vdpRejects, buffers, bitmaps >>

(* one pass of the inner for: vdp_adv_select_bitmap(startBufferID),        *)
(* vdp_plot_bitmap(10 + (cLoop * 20), 10 + (rLoop * 20)), startBufferID ++,*)
(* cLoop ++                                                                *)
DispTile ==
    /\ pc = "d_for2"
    /\ CLoopTest
    /\ CanSend(2)
    /\ cmds' = cmds \o << Cmd("select", startBufferID, 0, 0, 0),
                          Cmd("plot", PlotX(cLoop), PlotY(rLoop), 0, 0) >>
    /\ curBitmap' = IF Accepted("select") THEN startBufferID ELSE curBitmap
    /\ screen' = IF Accepted("plot")
                 THEN VdpPlot(screen, bitmaps, curBitmap', PlotX(cLoop), PlotY(rLoop))
                 ELSE screen
    /\ startBufferID' = NextBufferID(startBufferID)
    /\ cLoop' = NextCLoop(cLoop)
    /\ pc' = "d_for2"
    /\ UNCHANGED << argVars, retpc, fileVars, tileMapFile, filePos, readChunk,
                    startBitmapID, loadArgs, chunkLoop, rowLoop, rows, columns, rLoop,
                    mainVars, vdpRejects, buffers, bitmaps >>

(* uint8_t rLoop ++ *)
NextRLoop(r) == (r + 1) % UInt8

(* the inner for ends, and the outer for's rLoop ++ follows *)
DispRowDone ==
    /\ pc = "d_for2"
    /\ ~CLoopTest
    /\ rLoop' = NextRLoop(rLoop)
    /\ pc' = "d_for"
    /\ UNCHANGED << argVars, retpc, fileVars, tileMapFile, filePos, readChunk,
                    startBitmapID, loadArgs, chunkLoop, rowLoop, rows, columns,
                    startBufferID, cLoop, mainVars, cmds, vdpRejects, vdpVars >>

DispStep ==
    \/ DispFor
    \/ DispTile
    \/ DispRowDone

----------------------------------------------------------------------------
(* main                                                                    *)

(* the commands of main's set-up, mode to the second printf *)
SetupCmds ==
    << Cmd("mode", screen_mode, 0, 0, 0),
       Cmd("cursor", 0, 0, 0, 0),
       Cmd("textbg", BLUE, 0, 0, 0),
       Cmd("cls", 0, 0, 0, 0),
       Cmd("pixelcoords", 0, 0, 0, 0),
       Cmd("tab", 0, 27, 0, 0),
       Cmd("print", 24, 0, 0, 0),
       Cmd("tab", 0, 29, 0, 0),
       Cmd("print", 17, 0, 0, 0) >>

(* vdp_mode ... printf("Press ESC to exit") *)
MainSetup ==
    /\ pc = "m_setup"
    /\ cmds' = cmds \o SetupCmds
    /\ screen' = Empty
    /\ pc' = "m_load"
    /\ UNCHANGED << argVars, retpc, fileVars, tileMapFile, filePos, readChunk, startBitmapID,
                    loadArgs, chunkLoop, rowLoop, dispVars, mainVars, vdpRejects,
                    buffers, bitmaps, curBitmap >>

(* load_tiles_from_file(fname, tileStartID, cellWidth, cellHeight, cellRows, *)
(* cellColumns): the call                                                    *)
MainCallLoad ==
    /\ pc = "m_load"
    /\ loadStartArg' = tileStartID
    /\ startBitmapID' = tileStartID
    /\ lCellWidth' = cellWidth
    /\ lCellHeight' = cellHeight
    /\ rowCount' = cellRows
    /\ blockCount' = cellColumns
    /\ retpc' = "m_display"
    /\ pc' = "l_open"
    /\ UNCHANGED << dispStartArg, fileVars, tileMapFile, filePos, readChunk, chunkLoop, rowLoop,
                    dispVars, mainVars, cmds, vdpRejects, vdpVars >>

(* display_tiles(5, 8, tileStartID): the call, and the outer for's rLoop = 0 *)
MainCallDisplay ==
    /\ pc = "m_display"
    /\ rows' = DisplayRows
    /\ columns' = DisplayColumns
    /\ dispStartArg' = tileStartID
    /\ startBufferID' = tileStartID
    /\ rLoop' = 0
    /\ retpc' = "m_poll"
    /\ pc' = "d_for"
    /\ UNCHANGED << loadStartArg, fileVars, tileMapFile, filePos, readChunk, startBitmapID,
                    loadArgs, chunkLoop, rowLoop, cLoop, mainVars, cmds, vdpRejects,
                    vdpVars >>

(* the key codes the keyboard yields: none, Return, ESC, a letter *)
Keys == {0, 13, ESC, 65}

(* mutant: any key ends the poll loop *)
IsEsc_anyKey(k) == k # 0

(* the test of vdp_getKeyCode() against 27 *)
IsEsc(k) == k = ESC

(* while(true) { if(vdp_getKeyCode() == 27) break; } *)
MainPoll ==
    /\ pc = "m_poll"
    /\ \E k \in Keys :
        /\ lastKey' = k
        /\ pc' = IF IsEsc(k) THEN "m_bg" ELSE "m_poll"
    /\ UNCHANGED << argVars, retpc, fileVars, tileMapFile, filePos, readChunk, startBitmapID,
                    loadArgs, chunkLoop, rowLoop, dispVars, exitStatus, cmds,
                    vdpRejects, vdpVars >>

(* vdp_set_text_bg_colour(0) *)
MainTidyBg ==
    /\ pc = "m_bg"
    /\ CanSend(1)
    /\ Send(Cmd("textbg", 0, 0, 0, 0))
    /\ pc' = "m_cls"
    /\ UNCHANGED << argVars, retpc, fileVars, tileMapFile, filePos, readChunk, startBitmapID,
                    loadArgs, chunkLoop, rowLoop, dispVars, mainVars, vdpRejects,
                    vdpVars >>

(* vdp_clear_screen() *)
MainTidyClear ==
    /\ pc = "m_cls"
    /\ CanSend(1)
    /\ Send(Cmd("cls", 0, 0, 0, 0))
    /\ screen' = Empty
    /\ pc' = "m_cursor"
    /\ UNCHANGED << argVars, retpc, fileVars, tileMapFile, filePos, readChunk, startBitmapID,
                    loadArgs, chunkLoop, rowLoop, dispVars, mainVars, vdpRejects,
                    buffers, bitmaps, curBitmap >>

(* vdp_cursor_enable(true); return 0 *)
MainTidyCursor ==
    /\ pc = "m_cursor"
    /\ CanSend(1)
    /\ Send(Cmd("cursor", 1, 0, 0, 0))
    /\ exitStatus' = 0
    /\ pc' = "exit"
    /\ UNCHANGED << argVars, retpc, fileVars, tileMapFile, filePos, readChunk, startBitmapID,
                    loadArgs, chunkLoop, rowLoop, dispVars, lastKey, vdpRejects,
                    vdpVars >>

MainStep ==
    \/ MainSetup
    \/ MainCallLoad
    \/ MainCallDisplay
    \/ MainPoll
    \/ MainTidyBg
    \/ MainTidyClear
    \/ MainTidyCursor

----------------------------------------------------------------------------
(* load_tiles_from_file on its own, its arguments and its surroundings      *)
(* drawn from bounded sets                                                  *)

ZeroChunk == [k \in 1..chunkSize |-> 0]

(* cell geometries whose row of cells fills one chunk *)
Geometries ==
    { [w |-> cellWidth, h |-> cellHeight, n |-> cellColumns],
      [w |-> 32, h |-> 32, n |-> 2] }

(* first IDs: the program's, one that runs into chunkStoreID, one that wraps *)
StartIDs == {tileStartID, chunkStoreID - 1, UInt16 - 1}

(* the calls of the failure-free runs *)
Calls ==
    { [w |-> g.w, h |-> g.h, n |-> g.n, rows |-> r, start |-> s] :
        g \in Geometries, r \in 0..MaxRows, s \in StartIDs }
    \cup { [w |-> 8, h |-> 1, n |-> UInt8, rows |-> 1, start |-> tileStartID] }

(* file lengths short of rows chunks *)
ShortLens(r) == {0} \cup (IF r > 0 THEN {r * chunkSize - chunkSize \div 2} ELSE {})

RejectKinds == {"clear", "write", "split", "select", "convert"}

InitCommon ==
    /\ tileMapFile = "unset"
    /\ filePos = 0
    /\ readChunk = ZeroChunk
    /\ chunkLoop = 0
    /\ rowLoop = 0
    /\ rows = 0
    /\ columns = 0
    /\ startBufferID = 0
    /\ dispStartArg = 0
    /\ rLoop = 0
    /\ cLoop = 0
    /\ lastKey = 0
    /\ exitStatus = -1
    /\ cmds = << >>
    /\ buffers = Empty
    /\ bitmaps = Empty
    /\ curBitmap = 0
    /\ screen = Empty

InitLoad ==
    /\ InitCommon
    /\ pc = "l_open"
    /\ retpc = "returned"
    /\ \E c \in Calls :
        /\ lCellWidth = c.w
        /\ lCellHeight = c.h
        /\ blockCount = c.n
        /\ rowCount = c.rows
        /\ startBitmapID = c.start
        /\ loadStartArg = c.start
    /\ \/ /\ fileExists = TRUE
          /\ fileLen = rowCount * chunkSize
          /\ filePat \in {1, 2}
          /\ vdpRejects = {}
       \/ /\ startBitmapID = tileStartID
          /\ blockCount < UInt8
          /\ filePat = 1
          /\ \/ /\ fileExists = TRUE
                /\ fileLen \in ShortLens(rowCount)
                /\ vdpRejects = {}
             \/ /\ fileExists = FALSE
                /\ fileLen = 0
                /\ vdpRejects = {}
             \/ /\ fileExists = TRUE
                /\ fileLen = rowCount * chunkSize
                /\ \E k \in RejectKinds : vdpRejects = {k}

NextLoad == LoadStep

SpecLoad == InitLoad /\ [][NextLoad]_vars

----------------------------------------------------------------------------
(* display_tiles on its own, its arguments drawn from bounded sets          *)

InitDisplay ==
    /\ tileMapFile = "unset"
    /\ filePos = 0
    /\ readChunk = ZeroChunk
    /\ chunkLoop = 0
    /\ rowLoop = 0
    /\ cLoop = 0
    /\ lastKey = 0
    /\ exitStatus = -1
    /\ cmds = << >>
    /\ buffers = Empty
    /\ bitmaps = Empty
    /\ curBitmap = 0
    /\ screen = Empty
    /\ pc = "d_for"
    /\ retpc = "returned"
    /\ fileExists = FALSE
    /\ fileLen = 0
    /\ filePat = 1
    /\ vdpRejects = {}
    /\ startBitmapID = 0
    /\ loadStartArg = 0
    /\ lCellWidth = 0
    /\ lCellHeight = 0
    /\ rowCount = 0
    /\ blockCount = 0
    /\ rLoop = 0
    /\ rows \in 0..MaxDispRows
    /\ columns \in 0..MaxDispCols
    /\ startBufferID \in {tileStartID, cellRows * cellColumns, UInt16 - 2}
    /\ dispStartArg = startBufferID

NextDisplay == DispStep

SpecDisplay == InitDisplay /\ [][NextDisplay]_vars

----------------------------------------------------------------------------
(* The program: main from its first statement                               *)

Init ==
    /\ InitCommon
    /\ pc = "m_setup"
    /\ retpc = "exit"
    /\ startBitmapID = 0
    /\ loadStartArg = 0
    /\ lCellWidth = 0
    /\ lCellHeight = 0
    /\ rowCount = 0
    /\ blockCount = 0
    /\ vdpRejects = {}
    /\ \/ /\ fileExists = TRUE
          /\ fileLen = cellRows * chunkSize
          /\ filePat \in {1, 2}
       \/ /\ fileExists = TRUE
          /\ fileLen \in ShortLens(cellRows)
          /\ filePat = 1
       \/ /\ fileExists = FALSE
          /\ fileLen = 0
          /\ filePat = 1

Next ==
    \/ MainStep
    \/ LoadStep
    \/ DispStep

Spec == Init /\ [][Next]_vars

(* the program keeps running: it is the only thread and nothing suspends it *)
FairSpec == Spec /\ WF_vars(Next)

----------------------------------------------------------------------------
(* What the claims observe                                                 *)

(* 16-bit ID arithmetic: the ID k places after id *)
IdAfter(id, k) == (id + k) % UInt16

(* the file is well formed: there, and exactly rowCount chunks long *)
WellFormed == fileExists /\ fileLen = rowCount * chunkSize

(* the places in cmds of a select that a bitmap-from-buffer follows *)
Conversions ==
    {j \in 1..(Len(cmds) - 1) : cmds[j].op = "select" /\ cmds[j + 1].op = "convert"}

ConvertedIDs == {cmds[j].a : j \in Conversions}

(* the places in cmds of the commands of kind op *)
Places(op) == {j \in 1..Len(cmds) : cmds[j].op = op}

(* the byte of the file that is pixel (x, y) of source cell (r, c) *)
CellByte(r, c, x, y) ==
    FileByte(filePat, r * chunkSize + y * (blockCount * lCellWidth) + c * lCellWidth + x)

(* buffer id is a bitmap of the loader's cell size holding source cell (r, c) *)
HoldsCell(id, r, c) ==
    /\ id \in DOMAIN bitmaps
    /\ id \in DOMAIN buffers
    /\ bitmaps[id] = [w |-> lCellWidth, h |-> lCellHeight, format |-> RGBA2222_format]
    /\ Len(buffers[id]) = lCellWidth * lCellHeight
    /\ \A x \in 0..(lCellWidth - 1), y \in 0..(lCellHeight - 1) :
          buffers[id][y * lCellWidth + x + 1] = CellByte(r, c, x, y)

(* the place in cmds of the last split, 0 before the first *)
LastSplit == IF Places("split") = {} THEN 0
             ELSE CHOOSE j \in Places("split") : \A i \in Places("split") : i <= j

(* the bitmap-from-buffer commands sent since the last split *)
ConversionsThisRow == Cardinality({j \in Places("convert") : j > LastSplit})

(* the commands of one row: clear, write, split, blockCount select/convert pairs *)
CmdsPerRow == 3 + 2 * blockCount

(* the loops of the failure-free run end: both bounds fit the 8-bit counters *)
RunEnds == rowCount = 0 \/ (rowCount < UInt8 /\ blockCount < UInt8)

(* the j-th command of the failure-free run *)
FailureFreeCmd(j) ==
    LET r == IF blockCount < UInt8 THEN (j - 1) \div CmdsPerRow ELSE 0
        at == (j - 1) - r * CmdsPerRow
        t == (at - 3) \div 2
    IN  IF at = 0 THEN Cmd("clear", 5000, 0, 0, 0)
        ELSE IF at = 1 THEN Cmd("write", 5000, 2048, 0, 0)
        ELSE IF at = 2
            THEN Cmd("split", 5000, lCellWidth, blockCount,
                     IdAfter(loadStartArg, r * blockCount))
        ELSE IF (at - 3) % 2 = 0
            THEN Cmd("select", IdAfter(loadStartArg, r * blockCount + t), 0, 0, 0)
        ELSE Cmd("convert", lCellWidth, lCellHeight, 1, 0)

(* the positions of load_tiles_from_file *)
LoaderPcs ==
    {"l_open", "l_for", "l_clear", "l_read", "l_write", "l_split", "l_for2",
     "l_close", "returned"}

(* this row's fread delivered a full chunk, as did every read before it *)
RowReadInFull ==
    /\ tileMapFile = "open"
    /\ filePos = (chunkLoop + 1) * chunkSize
    /\ filePos <= fileLen

(* buf is this row's chunkSize bytes of the file *)
HoldsRowOfFile(buf) ==
    /\ Len(buf) = chunkSize
    /\ \A k \in 1..chunkSize : buf[k] = FileByte(filePat, chunkLoop * chunkSize + k - 1)

(* the places in cmds of the plots *)
PlotPlaces == Places("plot")

(* two 16 x 16 cells drawn at a and b share a pixel *)
Overlap(a, b) ==
    /\ a.a < b.a + 16
    /\ b.a < a.a + 16
    /\ a.b < b.b + 16
    /\ b.b < a.b + 16

(* display_tiles has returned and the screen is not yet cleared *)
Rendered == pc \in {"m_poll", "m_bg", "m_cls"}

(* the IDs selected for the plots *)
PlottedIDs == {cmds[j - 1].a : j \in Places("plot")}

(* the bitmap plotted at (10 + 20 * c, 10 + 20 * r) holds source cell (r, c) *)
GridShowsCells ==
    \A r \in 0..4, c \in 0..7 :
        /\ << 10 + 20 * c, 10 + 20 * r >> \in DOMAIN screen
        /\ HoldsCell(screen[<< 10 + 20 * c, 10 + 20 * r >>], r, c)

(* the positions of main from the break out of the poll loop on *)
TidyPcs == {"m_bg", "m_cls", "m_cursor", "exit"}

(* the commands of the tidy-up, in the order of the source *)
TidyCmds == << Cmd("textbg", 0, 0, 0, 0), Cmd("cls", 0, 0, 0, 0), Cmd("cursor", 1, 0, 0, 0) >>

(* how many of the tidy-up's commands are out at each position *)
TidySent ==
    IF pc = "m_cls" THEN 1
    ELSE IF pc = "m_cursor" THEN 2
    ELSE IF pc = "exit" THEN 3
    ELSE 0

(* the last TidySent commands sent *)
SinceRender ==
    LET from == Len(cmds) - TidySent
    IN  [j \in 1..TidySent |-> cmds[from + j]]

(* before ESC nothing of the tidy-up is out; after it, its commands in order *)
TidyOrder ==
    /\ pc \notin TidyPcs =>
          /\ lastKey # 27
          /\ exitStatus = -1
          /\ Cardinality(Places("cls")) <= 1
          /\ \A j \in 1..Len(cmds) : cmds[j] \notin {TidyCmds[1], TidyCmds[3]}
    /\ pc \in TidyPcs =>
          /\ lastKey = 27
          /\ Len(cmds) >= TidySent
          /\ SinceRender = SubSeq(TidyCmds, 1, TidySent)
          /\ Cardinality(Places("cls")) = (IF TidySent >= 2 THEN 2 ELSE 1)
          /\ Cardinality(Places("cursor")) = (IF TidySent = 3 THEN 2 ELSE 1)
    /\ (pc = "exit") <=> (exitStatus = 0)

(* a key code other than 27 leaves main polling *)
StaysPolling == (pc = "m_poll" /\ lastKey' # 27) => pc' = "m_poll"

(* the positions from the loader's return to the tidy-up's screen clear *)
AfterLoadPcs == {"m_display", "d_for", "d_for2", "m_poll", "m_bg", "m_cls"}

(* the commands that write, clear, split or convert *)
BufferOps == {"clear", "write", "split", "convert"}

(* the commands a step sends *)
Sent == SubSeq(cmds', Len(cmds) + 1, Len(cmds'))

(* every bitmap's ID was a split target once and converted once *)
CreatedOnce ==
    \A id \in DOMAIN bitmaps :
        /\ Cardinality({j \in Conversions : cmds[j].a = id}) = 1
        /\ Cardinality({j \in Places("split") :
                           id \in SplitTargets(cmds[j].c, cmds[j].d)}) = 1

(* a step after the loader's return leaves the tiles as they are *)
TilesKept ==
    pc \in AfterLoadPcs =>
        /\ buffers' = buffers
        /\ bitmaps' = bitmaps
        /\ \A j \in 1..Len(Sent) : Sent[j].op \notin BufferOps
        /\ CreatedOnce

----------------------------------------------------------------------------
(* The claims                                                              *)

(* C1: on a well-formed file, when load_tiles_from_file has returned, the   *)
(* IDs it converted (a select followed by a bitmap-from-buffer) are exactly *)
(* the rowCount * blockCount IDs from the startBitmapID passed on, in       *)
(* 16-bit ID arithmetic: contiguous, none skipped, none outside.            *)
C1_ConvertedRange ==
    (pc = "returned" /\ WellFormed) =>
        /\ ConvertedIDs = {IdAfter(loadStartArg, k) : k \in 0..(rowCount * blockCount - 1)}
        /\ Cardinality(Conversions) = rowCount * blockCount
        /\ Cardinality(ConvertedIDs) = rowCount * blockCount
        /\ Cardinality(Places("convert")) = rowCount * blockCount

(* C1 happens: a two-row call from ID 65535 has returned, 16 IDs converted *)
C1_Witness ==
    /\ pc = "returned"
    /\ WellFormed
    /\ rowCount = 2
    /\ blockCount = cellColumns
    /\ loadStartArg = UInt16 - 1
    /\ Cardinality(ConvertedIDs) = 2 * cellColumns

(* C2: after load_tiles_from_file has returned, the bitmap with ID          *)
(* startBitmapID + r * blockCount + c holds source cell (r, c): its pixel   *)
(* (x, y) is the file byte at r * chunkSize + y * (blockCount * cellWidth)  *)
(* + c * cellWidth + x.                                                     *)
C2_RowMajorCells ==
    (pc = "returned" /\ WellFormed /\ vdpRejects = {}) =>
        \A r \in 0..(rowCount - 1), c \in 0..(blockCount - 1) :
            HoldsCell(IdAfter(loadStartArg, r * blockCount + c), r, c)

(* C3: display_tiles issues rows * columns plots, rows outer and columns    *)
(* inner: the k-th plot, k = r * columns + c, follows a select of bitmap    *)
(* startBufferID + k (16-bit ID arithmetic) and is drawn at                 *)
(* (10 + 20 * c, 10 + 20 * r); every ID is plotted once, no two plots share *)
(* a position and no two 16 x 16 cells overlap.                             *)
C3_GridPlots ==
    /\ Len(cmds) <= 2 * rows * columns
    /\ pc = "returned" => Len(cmds) = 2 * rows * columns
    /\ pc = "returned" => Cardinality(PlotPlaces) = rows * columns
    /\ \A j \in 1..Len(cmds) :
          LET k == (j - 1) \div 2
              r == k \div columns
              c == k % columns
          IN  IF j % 2 = 1
              THEN cmds[j] = Cmd("select", IdAfter(dispStartArg, k), 0, 0, 0)
              ELSE cmds[j] = Cmd("plot", 10 + 20 * c, 10 + 20 * r, 0, 0)
    /\ \A i, j \in PlotPlaces :
          i # j => /\ cmds[i - 1].a # cmds[j - 1].a
                   /\ << cmds[i].a, cmds[i].b >> # << cmds[j].a, cmds[j].b >>
                   /\ ~Overlap(cmds[i], cmds[j])

(* C3 happens: a 2 x 3 grid from ID 65534 is drawn, the last plot at (50, 30) *)
C3_Witness ==
    /\ pc = "returned"
    /\ rows = 2
    /\ columns = 3
    /\ dispStartArg = UInt16 - 2
    /\ Cardinality(PlotPlaces) = 6
    /\ cmds[Len(cmds)] = Cmd("plot", 50, 30, 0, 0)

C5_EscThenTidy ==
    /\ []TidyOrder
    /\ [][StaysPolling]_vars
    /\ (lastKey = 27) ~> (pc = "exit")

(* C5 happens: ESC was read and main has returned 0 after the tidy-up *)
C5_Witness ==
    /\ pc = "exit"
    /\ lastKey = 27
    /\ exitStatus = 0
    /\ cmds[Len(cmds)] = Cmd("cursor", 1, 0, 0, 0)

(* C6: the loader detects and reports no failure. Whatever the file and    *)
(* the VDP do, the commands it issues are those its arguments alone fix:    *)
(* per row clear, write of chunkSize bytes, split, then blockCount          *)
(* select/convert pairs, with the same IDs and lengths; it is in no state   *)
(* but those of the failure-free run, and it returns nothing.               *)
C6_FailuresIgnored ==
    /\ pc \in LoaderPcs
    /\ \A j \in 1..Len(cmds) : cmds[j] = FailureFreeCmd(j)
    /\ RunEnds => Len(cmds) <= rowCount * CmdsPerRow
    /\ pc = "returned" => (RunEnds /\ Len(cmds) = rowCount * CmdsPerRow)
    /\ pc = "returned" => tileMapFile = "closed"

(* C6 happens: a two-row call has returned from a run with a failure *)
C6_Witness ==
    /\ pc = "returned"
    /\ rowCount = 2
    /\ \/ ~fileExists
       \/ fileLen < rowCount * chunkSize
       \/ vdpRejects # {}
    /\ Len(cmds) = 2 * CmdsPerRow

C8_TilesPersist == [][TilesKept]_vars

(* C8 happens: all 40 tiles are plotted and ESC is read, before the clear *)
C8_Witness ==
    /\ pc = "m_cls"
    /\ DOMAIN bitmaps = 0..39
    /\ Cardinality(Places("plot")) = 40
    /\ lastKey = 27

(* C9: load_tiles_from_file runs exactly rowCount outer iterations and      *)
(* exactly blockCount conversions in each, for every 16-bit rowCount and    *)
(* blockCount: never more splits than rowCount, never more conversions      *)
(* after a split than blockCount, and rowCount * blockCount in all once it  *)
(* has returned.                                                            *)
C9_LoopsBounded ==
    /\ Cardinality(Places("split")) <= rowCount
    /\ ConversionsThisRow <= blockCount
    /\ pc = "returned" => Cardinality(Places("convert")) = rowCount * blockCount

(* C10: no split target and no selected bitmap ID is chunkStoreID, for      *)
(* every startBitmapID, rowCount and blockCount.                            *)
C10_ChunkStoreApart ==
    \A j \in 1..Len(cmds) :
        /\ cmds[j].op = "select" => cmds[j].a # chunkStoreID
        /\ cmds[j].op = "split" => chunkStoreID \notin SplitTargets(cmds[j].c, cmds[j].d)
====
